---- MODULE Spec2Model ----
(***************************************************************************)
(* aws-profile-switch: the fuzzy search (search.py), the interactive       *)
(* account / role / profile selection (ui.py) and the run() workflow        *)
(* (core.py, models.py).                                                    *)
(*                                                                          *)
(* Python strings are sequences of one-character strings, so that strip,   *)
(* isdigit, int and the scorer's normalisation are computed, not assumed.   *)
(* fuzz.WRatio belongs to the fuzzywuzzy library: its value for a pair of   *)
(* strings is an input of the model, drawn from ScoreVals, subject to what  *)
(* the library fixes: both strings are normalised by full_process first,    *)
(* an empty normalised string scores 0, equal normalised strings score 100. *)
(***************************************************************************)
EXTENDS Integers, Sequences, FiniteSets, TLC

(* ------------------------------------------------------------------ *)
(* Program constants                                                   *)
(* ------------------------------------------------------------------ *)
MinScore == 30
AutoAccept == 70
SecondAccept == 50
DefaultLimit == 10
ShownAccounts == 5
HistoryCap == 10
RecentLimit == 5
SeedLimit == 5
MaxScore == 100

(* ------------------------------------------------------------------ *)
(* Bounds of the model                                                 *)
(* ------------------------------------------------------------------ *)
\* limits 0..MaxLimit are tried when the searcher is called directly
MaxLimit == 7
\* number of rotations of the sorted order taken as set iteration orders
NumRotations == 2

(* ------------------------------------------------------------------ *)
(* Python values                                                       *)
(* ------------------------------------------------------------------ *)
\* None is a value no string of the model equals
None == <<"<None>">>
\* run() ended by raising instead of returning
Raised == <<"<Raised>">>
\* prompt() raises KeyboardInterrupt or EOFError
Interrupt == <<"<Interrupt>">>
\* the empty str
EmptyStr == <<>>

Min(a, b) == IF a < b THEN a ELSE b

AsciiDigits == {"0", "1", "2", "3", "4", "5", "6", "7", "8", "9"}
\* characters for which str.isdigit() is true: the ASCII digits and
\* digits such as SUPERSCRIPT TWO (written Sup2), which int() does not accept
Sup2 == "U+00B2"
DigitChars == AsciiDigits \cup {Sup2}
Letters == {"a", "b", "x", "y", "p", "A", "B"}

IsSpace(c) == c = " "

Lower(c) == CASE c = "A" -> "a" [] c = "B" -> "b" [] OTHER -> c

\* code point order of the characters used, for sorted()
Ord(c) ==
  CASE c = " " -> 32 [] c = "-" -> 45
    [] c = "0" -> 48 [] c = "1" -> 49 [] c = "2" -> 50 [] c = "3" -> 51
    [] c = "4" -> 52 [] c = "5" -> 53 [] c = "6" -> 54 [] c = "7" -> 55
    [] c = "8" -> 56 [] c = "9" -> 57
    [] c = "A" -> 65 [] c = "B" -> 66
    [] c = "a" -> 97 [] c = "b" -> 98 [] c = "p" -> 112
    [] c = "x" -> 120 [] c = "y" -> 121
    [] OTHER -> 178

DigitVal(c) == Ord(c) - 48

RECURSIVE lstrip(_)
lstrip(s) == IF s # <<>> /\ IsSpace(Head(s)) THEN lstrip(Tail(s)) ELSE s

RECURSIVE rstrip(_)
rstrip(s) ==
  IF s # <<>> /\ IsSpace(s[Len(s)]) THEN rstrip(SubSeq(s, 1, Len(s) - 1)) ELSE s

\* str.strip()
strip(s) == rstrip(lstrip(s))

\* str.isdigit(): non-empty and every character a digit
isdigit(s) == s # <<>> /\ \A i \in 1..Len(s) : s[i] \in DigitChars

\* int(s) raises ValueError on a digit character that is no decimal digit
IntRaises(s) == \E i \in 1..Len(s) : s[i] \notin AsciiDigits

RECURSIVE int(_)
int(s) == IF s = <<>> THEN 0 ELSE 10 * int(SubSeq(s, 1, Len(s) - 1)) + DigitVal(s[Len(s)])

\* s < t in Python's string order
RECURSIVE StrLess(_, _)
StrLess(s, t) ==
  IF t = <<>> THEN FALSE
  ELSE IF s = <<>> THEN TRUE
  ELSE IF Head(s) # Head(t) THEN Ord(Head(s)) < Ord(Head(t))
  ELSE StrLess(Tail(s), Tail(t))

\* sorted(S) of a set of strings
RECURSIVE sorted(_)
sorted(S) ==
  IF S = {} THEN <<>>
  ELSE LET m == CHOOSE x \in S : \A y \in S \ {x} : StrLess(x, y)
       IN  <<m>> \o sorted(S \ {m})

\* the elements of a sequence, as a set
Range(s) == {s[i] : i \in 1..Len(s)}

\* s[:n]
Take(s, n) == SubSeq(s, 1, Min(n, Len(s)))

(* ------------------------------------------------------------------ *)
(* fuzzywuzzy: the normalisation WRatio applies to both strings         *)
(* ------------------------------------------------------------------ *)
\* utils.full_process(s, force_ascii=True): drop non-ASCII characters,
\* turn every non-word character into a space, lower-case, strip
full_process(s) ==
  LET IsAscii(c) == c \in AsciiDigits \cup Letters \cup {" ", "-"}
      ascii == SelectSeq(s, IsAscii)
      word == [i \in 1..Len(ascii) |->
                 IF ascii[i] \in AsciiDigits \cup Letters
                 THEN Lower(ascii[i]) ELSE " "]
  IN  strip(word)

\* the scores tried for a candidate that differs from the query after
\* normalisation: one value at and one above each threshold the program
\* compares a score with (MaxScore is kept for equal normalised strings)
ScoreVals ==
  {MinScore, MinScore + 1, SecondAccept, SecondAccept + 1,
   AutoAccept, AutoAccept + 1}

\* WRatio(query, c) for every c of cands: the score tables the library can
\* produce for one query
WRatioTables(query, cands) ==
  LET pq == full_process(query)
      free == {full_process(c) : c \in cands} \ {pq, <<>>}
  IN  { [c \in cands |->
           IF pq = <<>> \/ full_process(c) = <<>> THEN 0
           ELSE IF full_process(c) = pq THEN MaxScore
           ELSE f[full_process(c)]] :
        f \in IF pq = <<>> THEN {<<>>} ELSE [free -> ScoreVals] }

(* ------------------------------------------------------------------ *)
(* State                                                               *)
(* ------------------------------------------------------------------ *)
VARIABLES
  profiles,      \* the SSO profiles of the config file, self.profiles once loaded
  hashorder,     \* iteration order of a Python set of str in this process
  history,       \* ProfileHistory._history
  pc,            \* where run() is: the prompt() it blocks on, or Idle / Done
  typed,         \* what the blocked prompt() is about to return: text, Interrupt
  wratio,        \* WRatio(stripped typed text, c) for the candidates c scored
  valid_recent,  \* search_accounts_with_history: (profile, account) seeds
  query,         \* stage local account_name / role_name: the first text, stripped
  scores,        \* WRatio(query, c) for the stage's candidates c
  matches,       \* stage local `matches`
  shown,         \* the entries of `matches` printed with their numbers
  account_name,  \* run(): result of the account stage
  role_name,     \* run(): result of the role stage
  run_result,    \* what run() returned (None, a profile name), or Raised
  stage,         \* the stage whose function ran last: account, role, profile
  how,           \* which return of that function was taken
  call,          \* a direct call of FuzzySearcher: its arguments and result
  history_file,  \* the history file: a list of names, or Absent / Corrupt
  picked,        \* the valid_recent entry the arrow keys put in the buffer
  initial_query, \* search_roles: the default text of its prompt
  sections,      \* parse_config: the sections of the config file still to read
  parsed,        \* parse_config: its local list `profiles`
  main,          \* cli.main(): its locals, sys.stdout, what the real stdout got
  current_index, \* search_accounts_with_history: the history cursor, from -1
  buffer         \* the text in the buffer of the "Account: " prompt

vars == <<profiles, hashorder, history, pc, typed, wratio, valid_recent, query,
          scores, matches, shown, account_name, role_name, run_result, stage,
          how, call, history_file, picked, initial_query, sections, parsed,
          main, current_index, buffer>>

\* the state of the config parser, of main() and of the arrow keys, which the
\* steps of run() and the history leave alone
other_vars == <<sections, parsed, main, current_index, buffer>>

\* main() has not been called
NoMain == [pc |-> "none"]

(* ------------------------------------------------------------------ *)
(* search.py: FuzzySearcher                                            *)
(* ------------------------------------------------------------------ *)
\* list(set(...)): the members of S in the process's set iteration order
list_set(S) == SelectSeq(hashorder, LAMBDA x : x \in S)

\* sorted(sl, key=score, reverse=True): stable, so equal scores keep the
\* order of sl; sl is a sequence of <<choice, score>>
RECURSIVE SortDesc(_)
SortDesc(sl) ==
  IF sl = <<>> THEN <<>>
  ELSE LET best == CHOOSE i \in 1..Len(sl) :
                     /\ \A j \in 1..Len(sl) : sl[j][2] <= sl[i][2]
                     /\ \A j \in 1..(i - 1) : sl[j][2] < sl[i][2]
           rest == [j \in 1..(Len(sl) - 1) |-> IF j < best THEN sl[j] ELSE sl[j + 1]]
       IN  <<sl[best]>> \o SortDesc(rest)

\* process.extractWithoutOrder(query, choices, scorer=fuzz.WRatio) with
\* score_cutoff = 0: every choice with its score, in the order of choices
extractWithoutOrder(choices, sc) ==
  [i \in 1..Len(choices) |-> <<choices[i], sc[choices[i]]>>]

\* process.extract(query, choices, scorer=fuzz.WRatio, limit=limit):
\* heapq.nlargest(limit, ...) = sorted(..., reverse=True)[:limit]
extract(choices, sc, limit) ==
  Take(SortDesc(extractWithoutOrder(choices, sc)), limit)

\* process.extractOne(query, choices, scorer=fuzz.WRatio): max() returns the
\* first of the best-scoring choices; None when there is no choice
extractOne(choices, sc) ==
  IF choices = <<>> THEN None
  ELSE LET sl == extractWithoutOrder(choices, sc)
           best == CHOOSE i \in 1..Len(sl) :
                     /\ \A j \in 1..Len(sl) : sl[j][2] <= sl[i][2]
                     /\ \A j \in 1..(i - 1) : sl[j][2] < sl[i][2]
       IN  sl[best]

\* mutant: a score of 30 is kept
AboveFloor_AtLeast(ms) ==
  LET kept == SelectSeq(ms, LAMBDA m : m[2] >= MinScore)
  IN  [i \in 1..Len(kept) |-> kept[i][1]]

\* [match[0] for match in matches if match[1] > 30]
AboveFloor(ms) ==
  LET kept == SelectSeq(ms, LAMBDA m : m[2] > MinScore)
  IN  [i \in 1..Len(kept) |-> kept[i][1]]

AccountSet == {profiles[i].sso_account_name : i \in 1..Len(profiles)}

\* mutant: the roles of every account
RoleSet_AnyAccount(account) ==
  {profiles[i].sso_role_name : i \in 1..Len(profiles)}

\* the roles of the records whose account name equals account
RoleSet(account) ==
  {profiles[i].sso_role_name :
     i \in {j \in 1..Len(profiles) : profiles[j].sso_account_name = account}}

\* FuzzySearcher.search_accounts(query, limit); sc is WRatio(query, .)
search_accounts(q, limit, sc) ==
  IF strip(q) = <<>> THEN <<>>
  ELSE AboveFloor(extract(list_set(AccountSet), sc, limit))

\* FuzzySearcher.search_roles(query, account_name, limit)
search_roles(q, account, limit, sc) ==
  IF strip(q) = <<>> THEN <<>>
  ELSE AboveFloor(extract(list_set(RoleSet(account)), sc, limit))

\* mutant: get_best_match with the floor of the ranking
get_best_match_Floored(q, candidates, sc) ==
  IF strip(q) = <<>> \/ candidates = <<>> THEN <<EmptyStr, 0>>
  ELSE LET match == extractOne(candidates, sc)
       IN  IF match # None /\ match[2] > MinScore THEN match ELSE <<EmptyStr, 0>>

\* mutant: get_best_match without its check of the query and the candidates
get_best_match_Unguarded(q, candidates, sc) ==
  LET match == extractOne(candidates, sc)
  IN  IF match # None THEN match ELSE <<EmptyStr, 0>>

\* FuzzySearcher.get_best_match(query, candidates): <<text, score>>
get_best_match(q, candidates, sc) ==
  IF strip(q) = <<>> \/ candidates = <<>> THEN <<EmptyStr, 0>>
  ELSE LET match == extractOne(candidates, sc)
       IN  IF match # None THEN match ELSE <<EmptyStr, 0>>

(* ------------------------------------------------------------------ *)
(* models.py: ProfileHistory                                           *)
(* ------------------------------------------------------------------ *)
\* list.remove(x): drop the first occurrence of x
RemoveFirst(h, x) ==
  LET at == CHOOSE i \in 1..Len(h) : h[i] = x /\ \A j \in 1..(i - 1) : h[j] # x
  IN  [j \in 1..(Len(h) - 1) |-> IF j < at THEN h[j] ELSE h[j + 1]]

\* ProfileHistory.add_profile(profile_name): the new _history (a failing
\* _save_history is swallowed and changes nothing in memory)
add_profile(h, p) ==
  LET removed == IF p \in Range(h) THEN RemoveFirst(h, p) ELSE h
  IN  Take(<<p>> \o removed, HistoryCap)

\* ProfileHistory.get_recent_profiles(limit=5)
get_recent_profiles(h) == Take(h, RecentLimit)

\* the history file does not exist (a value no list of names equals)
Absent == << <<"<Absent>">> >>
\* the history file is not JSON
Corrupt == << <<"<Corrupt>">> >>

\* ProfileHistory._load_history: the "recent_profiles" list of the file as it
\* is; [] when there is no file or json.load raises JSONDecodeError
load_history(file) == IF file \in {Absent, Corrupt} THEN <<>> ELSE file

\* ProfileHistory._save_history: the file after it; when mkdir, open or
\* json.dump raises (ok = FALSE) the exception is swallowed and, in the
\* model, the file is as it was
save_history(h, file, ok) == IF ok THEN h ELSE file

(* ------------------------------------------------------------------ *)
(* ui.py: ProfileSelector                                              *)
(* ------------------------------------------------------------------ *)
\* next((p for p in self.profiles if p.profile_name == name), None) is a
\* profile
InCatalog(name) == \E i \in 1..Len(profiles) : profiles[i].profile_name = name

\* that profile: the first record of the name
FindProfile(name) == SelectSeq(profiles, LAMBDA p : p.profile_name = name)[1]

\* mutant: a recent name that is no profile is kept, without an account
ValidRecent_KeepStale(recent) ==
  LET five == Take(recent, SeedLimit)
  IN  [i \in 1..Len(five) |->
         IF InCatalog(five[i])
         THEN <<five[i], FindProfile(five[i]).sso_account_name>>
         ELSE <<five[i], None>>]

\* search_accounts_with_history: the (profile name, account name) pairs of
\* the first five recent profiles that are still in the catalog
ValidRecent(recent) ==
  LET five == Take(recent, SeedLimit)
      kept == SelectSeq(five, InCatalog)
  IN  [i \in 1..Len(kept) |-> <<kept[i], FindProfile(kept[i]).sso_account_name>>]

\* mutant: 70 itself counts as high confidence
HighConfidence_AtLeast(score) == score >= AutoAccept

\* score > 70: a high confidence match
HighConfidence(score) == score > AutoAccept

\* mutant: 50 itself is accepted
SecondAccepted_AtLeast(score) == score >= SecondAccept

\* score > 50: the typed-again text is accepted
SecondAccepted(score) == score > SecondAccept

\* mutant: the account stage prints every entry of matches
ShownOfAccounts_All(ms) == ms

\* the first five of matches, printed by the account stage
ShownOfAccounts(ms) == Take(ms, ShownAccounts)

\* the role stage prints every entry of matches
ShownOfRoles(ms) == ms

\* mutant: the account stage without its exact-match check
selector_search_accounts_NoExact(raw, sc) ==
  LET name == strip(raw)
      bm == get_best_match(name, list_set(AccountSet), sc)
      ms == search_accounts(name, DefaultLimit, sc)
  IN  IF name = <<>>
      THEN [how |-> "empty", ret |-> None, matches |-> <<>>, shown |-> <<>>]
      ELSE IF HighConfidence(bm[2])
      THEN [how |-> "auto", ret |-> bm[1], matches |-> <<>>, shown |-> <<>>]
      ELSE IF ms # <<>>
      THEN [how |-> "ask", ret |-> None, matches |-> ms, shown |-> ShownOfAccounts(ms)]
      ELSE [how |-> "nomatch", ret |-> None, matches |-> ms, shown |-> <<>>]

\* the account stage from the return of its first prompt() to its return or
\* to its second prompt (how = "ask"); sc is WRatio(stripped text, .)
selector_search_accounts(raw, sc) ==
  LET name == strip(raw)
      all_accounts_set == AccountSet
      bm == get_best_match(name, list_set(all_accounts_set), sc)
      ms == search_accounts(name, DefaultLimit, sc)
  IN  IF name = <<>>
      THEN [how |-> "empty", ret |-> None, matches |-> <<>>, shown |-> <<>>]
      ELSE IF name \in all_accounts_set
      THEN [how |-> "exact", ret |-> name, matches |-> <<>>, shown |-> <<>>]
      ELSE IF HighConfidence(bm[2])
      THEN [how |-> "auto", ret |-> bm[1], matches |-> <<>>, shown |-> <<>>]
      ELSE IF ms # <<>>
      THEN [how |-> "ask", ret |-> None, matches |-> ms, shown |-> ShownOfAccounts(ms)]
      ELSE [how |-> "nomatch", ret |-> None, matches |-> ms, shown |-> <<>>]

\* the role stage, likewise
selector_search_roles(account, raw, sc) ==
  LET name == strip(raw)
      available_roles == sorted(RoleSet(account))
      bm == get_best_match(name, available_roles, sc)
      ms == search_roles(name, account, DefaultLimit, sc)
  IN  IF name = <<>>
      THEN [how |-> "empty", ret |-> None, matches |-> <<>>, shown |-> <<>>]
      ELSE IF name \in Range(available_roles)
      THEN [how |-> "exact", ret |-> name, matches |-> <<>>, shown |-> <<>>]
      ELSE IF HighConfidence(bm[2])
      THEN [how |-> "auto", ret |-> bm[1], matches |-> <<>>, shown |-> <<>>]
      ELSE IF ms # <<>>
      THEN [how |-> "ask", ret |-> None, matches |-> ms, shown |-> ShownOfRoles(ms)]
      ELSE [how |-> "nomatch", ret |-> None, matches |-> ms, shown |-> <<>>]

\* 0 <= idx < len(ms) for idx = int(c) - 1
InRange(c, ms) == 0 <= int(c) - 1 /\ int(c) - 1 < Len(ms)

\* ms[idx]
PickByNumber(c, ms) == ms[(int(c) - 1) + 1]

\* the second prompt of the account and of the role stage, from the return
\* of prompt() to the stage's return; sc2 is WRatio(stripped text, .)
second_prompt(raw, ms, sc2) ==
  LET c == strip(raw)
      bm == get_best_match(c, ms, sc2)
  IN  IF isdigit(c)
      THEN IF IntRaises(c) THEN [how |-> "raised", ret |-> None]
           ELSE IF InRange(c, ms)
           THEN [how |-> "index", ret |-> PickByNumber(c, ms)]
           ELSE [how |-> "invalid", ret |-> None]
      ELSE IF c # <<>>
      THEN IF SecondAccepted(bm[2])
           THEN [how |-> "second", ret |-> bm[1]]
           ELSE [how |-> "rejected", ret |-> None]
      ELSE [how |-> "empty", ret |-> None]

\* mutant: select_profile takes the records of the account, whatever role
MatchingProfiles_AnyRole(account, role) ==
  SelectSeq(profiles, LAMBDA p : p.sso_account_name = account)

\* mutant: the matching records in the reverse of the catalog order
MatchingProfiles_Reversed(account, role) ==
  LET mp == SelectSeq(profiles,
                      LAMBDA p : p.sso_account_name = account /\ p.sso_role_name = role)
  IN  [i \in 1..Len(mp) |-> mp[Len(mp) + 1 - i]]

\* select_profile: the records matching both names, in catalog order
MatchingProfiles(account, role) ==
  SelectSeq(profiles,
            LAMBDA p : p.sso_account_name = account /\ p.sso_role_name = role)

\* select_profile, from the return of its prompt() to its return
select_profile_choice(raw, mp) ==
  LET c == strip(raw)
  IN  IF isdigit(c)
      THEN IF IntRaises(c) THEN [how |-> "raised", ret |-> None]
           ELSE IF InRange(c, mp)
           THEN [how |-> "index", ret |-> PickByNumber(c, mp).profile_name]
           ELSE [how |-> "invalid", ret |-> None]
      ELSE [how |-> "invalid", ret |-> None]

(* ------------------------------------------------------------------ *)
(* Inputs: catalogs, set orders, histories, typed text                 *)
(* ------------------------------------------------------------------ *)
Profile(pn, account, role) ==
  [profile_name |-> pn, sso_account_name |-> account, sso_role_name |-> role]

\* two accounts; account b has two profiles with the same role
CatalogSmall ==
  << Profile(<<"p", "1">>, <<"a">>, <<"a">>),
     Profile(<<"p", "2">>, <<"a">>, <<"b">>),
     Profile(<<"p", "3">>, <<"b">>, <<"a">>),
     Profile(<<"p", "4">>, <<"b">>, <<"a">>) >>

\* six accounts, the first of them with eleven roles; the names differ in
\* case or punctuation only within each of two groups (a.. and b..)
CatalogWide ==
  << Profile(<<"p", "1">>, <<"a">>, <<"a">>),
     Profile(<<"p", "2">>, <<"A">>, <<"a">>),
     Profile(<<"p", "3">>, <<"a", "-">>, <<"a">>),
     Profile(<<"p", "4">>, <<"b">>, <<"a">>),
     Profile(<<"p", "5">>, <<"B">>, <<"a">>),
     Profile(<<"p", "6">>, <<"b", "-">>, <<"a">>),
     Profile(<<"p", "7">>, <<"a">>, <<"A">>),
     Profile(<<"p", "8">>, <<"a">>, <<"a", "-">>),
     Profile(<<"p", "9">>, <<"a">>, <<"-", "a">>),
     Profile(<<"p", "a">>, <<"a">>, <<"A", "-">>),
     Profile(<<"p", "b">>, <<"a">>, <<"-", "A">>),
     Profile(<<"p", "x">>, <<"a">>, <<"b">>),
     Profile(<<"p", "y">>, <<"a">>, <<"B">>),
     Profile(<<"p", "A">>, <<"a">>, <<"b", "-">>),
     Profile(<<"p", "B">>, <<"a">>, <<"-", "b">>),
     Profile(<<"p", "-">>, <<"a">>, <<"B", "-">>) >>

Catalogs == {<<>>, CatalogSmall, CatalogWide}

Names(cat) ==
  {cat[i].sso_account_name : i \in 1..Len(cat)}
    \cup {cat[i].sso_role_name : i \in 1..Len(cat)}

Reverse(s) == [i \in 1..Len(s) |-> s[Len(s) + 1 - i]]

Rotate(s, k) ==
  IF s = <<>> THEN s ELSE [i \in 1..Len(s) |-> s[((i - 1 + k) % Len(s)) + 1]]

\* the iteration orders of a set of the catalog's names that are tried: the
\* order depends on the process's string hashing, not on the catalog
HashOrders(cat) ==
  {Rotate(sorted(Names(cat)), k) : k \in 0..(NumRotations - 1)}
    \cup {Rotate(Reverse(sorted(Names(cat))), k) : k \in 0..(NumRotations - 1)}

\* a history of seven names: of its first five, two are profiles of the
\* catalogs (p3, p1) and three are not; its last two are profiles
HistorySeven ==
  << <<"p", "0">>, <<"p", "3">>, <<"p", "z">>, <<"p", "1">>, <<"p", "q">>,
     <<"p", "2">>, <<"p", "4">> >>

\* the history file at start: nothing, a stale name and a live one, or the
\* seven names
Histories == {<<>>, <<<<"p", "0">>, <<"p", "2">>>>, HistorySeven}

\* text typed at the first prompt of a stage
FirstInputs ==
  {<<>>, <<" ">>, <<"a">>, <<" ", "b", " ">>, <<"B">>, <<"x">>}

\* text typed at a second prompt or at the profile prompt
ChoiceInputs ==
  {<<>>, <<"0">>, <<"1">>, <<" ", "2">>, <<"5">>, <<"6">>, <<"1", "0">>,
   <<"1", "1">>, <<Sup2>>, <<"a">>, <<"x">>, <<"y">>}

\* WRatio(c, .) on the ranked candidates ms for the text c of a second
\* prompt: the same function of the normalised strings as at the first prompt
SecondTables(c, q, sc, ms) ==
  IF c = <<>> \/ isdigit(c) THEN {<<>>}
  ELSE IF full_process(c) = full_process(q) THEN {[m \in Range(ms) |-> sc[m]]}
  ELSE WRatioTables(c, Range(ms))

(* ------------------------------------------------------------------ *)
(* core.py: AWSProfileSwitcher.run()                                   *)
(* ------------------------------------------------------------------ *)
Init ==
  /\ profiles \in Catalogs
  /\ hashorder \in HashOrders(profiles)
  /\ history_file \in Histories
  /\ history = load_history(history_file)
  /\ picked = None
  /\ initial_query = None
  /\ sections = <<>>
  /\ parsed = <<>>
  /\ main = NoMain
  /\ current_index = -1
  /\ buffer = EmptyStr
  /\ pc = "Idle"
  /\ typed = None
  /\ wratio = <<>>
  /\ valid_recent = <<>>
  /\ query = None
  /\ scores = <<>>
  /\ matches = <<>>
  /\ shown = <<>>
  /\ account_name = None
  /\ role_name = None
  /\ run_result = None
  /\ stage = "none"
  /\ how = "none"
  /\ call = [op |-> "none"]

\* run() returns value, or raises; the stage's locals are gone
Return(value) ==
  /\ pc' = "Done"
  /\ run_result' = value

\* the running stage function returns: its locals are gone
StageReturns ==
  /\ query' = None
  /\ scores' = <<>>
  /\ matches' = <<>>
  /\ shown' = <<>>

\* run() up to the first prompt: _load_profiles, get_recent_profiles, and
\* the start of search_accounts_with_history
Run ==
  /\ pc = "Idle"
  /\ IF profiles = <<>>
     THEN Return(Raised) /\ UNCHANGED valid_recent
     ELSE /\ pc' = "AccountPrompt"
          /\ valid_recent' = ValidRecent(get_recent_profiles(history))
          /\ UNCHANGED run_result
  /\ UNCHANGED <<other_vars, profiles, hashorder, history, history_file, typed, wratio,
                 query, scores, matches, shown, account_name, role_name, stage,
                 how, call, picked, initial_query>>

\* the user ends a line at the prompt run() blocks on; the library's scores
\* for that text are fixed with it
UserTypes ==
  /\ pc \in {"AccountPrompt", "AccountChoice", "RolePrompt", "RoleChoice",
             "ProfilePrompt"}
  /\ typed = None
  /\ \E raw \in IF pc \in {"AccountPrompt", "RolePrompt"}
                THEN FirstInputs ELSE ChoiceInputs :
       /\ typed' = raw
       /\ wratio' \in
            CASE pc = "AccountPrompt" -> WRatioTables(strip(raw), AccountSet)
              [] pc = "RolePrompt" -> WRatioTables(strip(raw), RoleSet(account_name))
              [] pc = "ProfilePrompt" -> {<<>>}
              [] OTHER -> SecondTables(strip(raw), query, scores, matches)
  /\ UNCHANGED <<other_vars, profiles, hashorder, history, history_file, pc, valid_recent,
                 query, scores, matches, shown, account_name, role_name,
                 run_result, stage, how, call, picked, initial_query>>

\* search_accounts_with_history: the user presses Up i times, which puts
\* the account name of valid_recent[i] in the buffer, and then Enter
UserPicksRecent ==
  /\ pc = "AccountPrompt"
  /\ valid_recent # <<>>
  /\ typed = None
  /\ \E i \in 1..Len(valid_recent) :
       /\ picked' = valid_recent[i]
       /\ typed' = valid_recent[i][2]
       /\ wratio' \in WRatioTables(strip(valid_recent[i][2]), AccountSet)
  /\ UNCHANGED <<other_vars, profiles, hashorder, history, history_file, pc, valid_recent,
                 query, scores, matches, shown, account_name, role_name,
                 run_result, stage, how, call, initial_query>>

\* the user presses Ctrl-C or ends the input at the prompt
UserInterrupts ==
  /\ pc \in {"AccountPrompt", "AccountChoice", "RolePrompt", "RoleChoice",
             "ProfilePrompt"}
  /\ typed = None
  /\ typed' = Interrupt
  /\ UNCHANGED <<other_vars, profiles, hashorder, history, history_file, pc, wratio,
                 valid_recent, query, scores, matches, shown, account_name,
                 role_name, run_result, stage, how, call, picked, initial_query>>

\* mutant: run() asks for the account again when the stage returned None
AfterAccount_Reprompt(ret) ==
  /\ account_name' = ret
  /\ IF ret = None
     THEN pc' = "AccountPrompt" /\ UNCHANGED <<run_result, initial_query>>
     ELSE pc' = "RolePrompt" /\ initial_query' = EmptyStr /\ UNCHANGED run_result
  /\ UNCHANGED <<role_name, history, history_file>>

\* run() after the account stage returned ret; search_roles(account_name) is
\* called without an initial_query, which defaults to ""
AfterAccount(ret) ==
  /\ account_name' = ret
  /\ IF ret = None
     THEN Return(None) /\ UNCHANGED initial_query
     ELSE pc' = "RolePrompt" /\ initial_query' = EmptyStr /\ UNCHANGED run_result
  /\ UNCHANGED <<role_name, history, history_file>>

\* mutant: a failing _save_history makes run() raise
AfterProfile_SaveRaises(ret) ==
  IF ret = None
  THEN Return(None) /\ UNCHANGED <<history, history_file>>
  ELSE \E ok \in BOOLEAN :
         /\ IF ok THEN Return(ret) ELSE Return(Raised)
         /\ history' = add_profile(history, ret)
         /\ history_file' = save_history(history', history_file, ok)

\* mutant: run() returns the profile without recording it
AfterProfile_NoRecord(ret) ==
  IF ret = None
  THEN Return(None) /\ UNCHANGED <<history, history_file>>
  ELSE Return(ret) /\ UNCHANGED <<history, history_file>>

\* run() after select_profile returned ret: history.add_profile(ret), whose
\* _save_history succeeds or fails, then return
AfterProfile(ret) ==
  IF ret = None
  THEN Return(None) /\ UNCHANGED <<history, history_file>>
  ELSE \E ok \in BOOLEAN :
         /\ Return(ret)
         /\ history' = add_profile(history, ret)
         /\ history_file' = save_history(history', history_file, ok)

\* mutant: run() calls select_profile although the role stage returned None
AfterRole_SelectsAnyway(ret) ==
  /\ role_name' = ret
  /\ UNCHANGED account_name
  /\ LET mp == MatchingProfiles(account_name, ret)
     IN  IF ret # None /\ mp = <<>> THEN AfterProfile(None)
         ELSE IF ret # None /\ Len(mp) = 1 THEN AfterProfile(mp[1].profile_name)
         ELSE /\ pc' = "ProfilePrompt"
              /\ UNCHANGED <<run_result, history, history_file>>

\* run() after the role stage returned ret: select_profile runs up to its
\* prompt, or to its return when at most one record matches
AfterRole(ret) ==
  /\ role_name' = ret
  /\ UNCHANGED account_name
  /\ IF ret = None
     THEN Return(None) /\ UNCHANGED <<history, history_file>>
     ELSE LET mp == MatchingProfiles(account_name, ret)
          IN  IF mp = <<>> THEN AfterProfile(None)
              ELSE IF Len(mp) = 1 THEN AfterProfile(mp[1].profile_name)
              ELSE /\ pc' = "ProfilePrompt"
                   /\ UNCHANGED <<run_result, history, history_file>>

\* the account stage goes on from its first prompt, which returned typed
AccountAnswer ==
  LET r == selector_search_accounts(typed, wratio)
  IN  /\ stage' = "account"
      /\ how' = r.how
      /\ IF r.how = "ask"
         THEN /\ pc' = "AccountChoice"
              /\ query' = strip(typed)
              /\ scores' = wratio
              /\ matches' = r.matches
              /\ shown' = r.shown
              /\ UNCHANGED <<account_name, role_name, initial_query, run_result,
                             history, history_file>>
         ELSE AfterAccount(r.ret) /\ StageReturns
      /\ typed' = None
      /\ wratio' = <<>>
      /\ UNCHANGED <<other_vars, profiles, hashorder, valid_recent, call, picked>>

\* ProfileSelector.search_accounts: no usable recent profile
SearchAccounts ==
  /\ pc = "AccountPrompt"
  /\ valid_recent = <<>>
  /\ typed \notin {None, Interrupt}
  /\ AccountAnswer

\* ProfileSelector.search_accounts_with_history: recent profiles listed
SearchAccountsWithHistory ==
  /\ pc = "AccountPrompt"
  /\ valid_recent # <<>>
  /\ typed \notin {None, Interrupt}
  /\ AccountAnswer

\* the account stage goes on from its second prompt
AccountChoice ==
  /\ pc = "AccountChoice"
  /\ typed \notin {None, Interrupt}
  /\ LET r == second_prompt(typed, matches, wratio)
     IN  /\ how' = r.how
         /\ IF r.how = "raised"
            THEN /\ Return(Raised)
                 /\ UNCHANGED <<account_name, role_name, initial_query, history,
                                history_file>>
            ELSE AfterAccount(r.ret)
  /\ StageReturns
  /\ typed' = None
  /\ wratio' = <<>>
  /\ UNCHANGED <<other_vars, profiles, hashorder, valid_recent, stage, call, picked>>

\* KeyboardInterrupt or EOFError at a prompt of the account stage
AccountInterrupt ==
  /\ pc \in {"AccountPrompt", "AccountChoice"}
  /\ typed = Interrupt
  /\ how' = "interrupt"
  /\ AfterAccount(None)
  /\ StageReturns
  /\ typed' = None
  /\ UNCHANGED <<other_vars, profiles, hashorder, wratio, valid_recent, stage, call, picked>>

\* ProfileSelector.search_roles goes on from its first prompt
SearchRoles ==
  /\ pc = "RolePrompt"
  /\ typed \notin {None, Interrupt}
  /\ LET r == selector_search_roles(account_name, typed, wratio)
     IN  /\ how' = r.how
         /\ IF r.how = "ask"
            THEN /\ pc' = "RoleChoice"
                 /\ query' = strip(typed)
                 /\ scores' = wratio
                 /\ matches' = r.matches
                 /\ shown' = r.shown
                 /\ UNCHANGED <<account_name, role_name, run_result, history,
                                history_file>>
            ELSE AfterRole(r.ret) /\ StageReturns
  /\ stage' = "role"
  /\ typed' = None
  /\ wratio' = <<>>
  /\ UNCHANGED <<other_vars, profiles, hashorder, valid_recent, call, picked, initial_query>>

\* the role stage goes on from its second prompt
RoleChoice ==
  /\ pc = "RoleChoice"
  /\ typed \notin {None, Interrupt}
  /\ LET r == second_prompt(typed, matches, wratio)
     IN  /\ how' = r.how
         /\ IF r.how = "raised"
            THEN /\ Return(Raised)
                 /\ UNCHANGED <<account_name, role_name, history, history_file>>
            ELSE AfterRole(r.ret)
  /\ StageReturns
  /\ typed' = None
  /\ wratio' = <<>>
  /\ UNCHANGED <<other_vars, profiles, hashorder, valid_recent, stage, call, picked,
                 initial_query>>

\* KeyboardInterrupt or EOFError at a prompt of the role stage
RoleInterrupt ==
  /\ pc \in {"RolePrompt", "RoleChoice"}
  /\ typed = Interrupt
  /\ stage' = "role"
  /\ how' = "interrupt"
  /\ AfterRole(None)
  /\ StageReturns
  /\ typed' = None
  /\ UNCHANGED <<other_vars, profiles, hashorder, wratio, valid_recent, call, picked,
                 initial_query>>

\* ProfileSelector.select_profile goes on from its prompt
SelectProfile ==
  /\ pc = "ProfilePrompt"
  /\ typed \notin {None, Interrupt}
  /\ LET r == select_profile_choice(typed, MatchingProfiles(account_name, role_name))
     IN  /\ how' = r.how
         /\ IF r.how = "raised"
            THEN Return(Raised) /\ UNCHANGED <<history, history_file>>
            ELSE AfterProfile(r.ret)
  /\ stage' = "profile"
  /\ typed' = None
  /\ wratio' = <<>>
  /\ UNCHANGED <<other_vars, profiles, hashorder, valid_recent, query, scores, matches,
                 shown, account_name, role_name, call, picked, initial_query>>

\* KeyboardInterrupt or EOFError at the prompt of select_profile
ProfileInterrupt ==
  /\ pc = "ProfilePrompt"
  /\ typed = Interrupt
  /\ stage' = "profile"
  /\ how' = "interrupt"
  /\ AfterProfile(None)
  /\ typed' = None
  /\ UNCHANGED <<other_vars, profiles, hashorder, wratio, valid_recent, query, scores,
                 matches, shown, account_name, role_name, call, picked, initial_query>>

Next ==
  \/ Run
  \/ UserTypes
  \/ UserPicksRecent
  \/ UserInterrupts
  \/ SearchAccounts
  \/ SearchAccountsWithHistory
  \/ AccountChoice
  \/ AccountInterrupt
  \/ SearchRoles
  \/ RoleChoice
  \/ RoleInterrupt
  \/ SelectProfile
  \/ ProfileInterrupt

Spec == Init /\ [][Next]_vars

(* ------------------------------------------------------------------ *)
(* FuzzySearcher called directly, as the tests and the completers do   *)
(* ------------------------------------------------------------------ *)
\* an account name of no record
UnknownAccount == <<"y">>

NoCall == [op |-> "none"]

\* what a call of the searcher leaves alone: it keeps no state, so one call
\* in each behaviour is enough
OneCall ==
  /\ call = NoCall
  /\ UNCHANGED <<other_vars, profiles, hashorder, history, pc, typed, wratio, valid_recent,
                 query, scores, matches, shown, account_name, role_name,
                 run_result, stage, how, history_file, picked, initial_query>>

\* searcher.search_accounts(q, limit)
CallSearchAccounts ==
  /\ OneCall
  /\ \E q \in FirstInputs, limit \in 0..MaxLimit :
       \E sc \in WRatioTables(q, AccountSet) :
         call' = [op |-> "search_accounts", query |-> q, limit |-> limit,
                  account |-> None, candidates |-> list_set(AccountSet),
                  scores |-> sc, result |-> search_accounts(q, limit, sc)]

\* searcher.search_roles(q, account, limit)
CallSearchRoles ==
  /\ OneCall
  /\ \E q \in FirstInputs, limit \in 0..MaxLimit,
        account \in AccountSet \cup {UnknownAccount} :
       \E sc \in WRatioTables(q, RoleSet(account)) :
         call' = [op |-> "search_roles", query |-> q, limit |-> limit,
                  account |-> account, candidates |-> list_set(RoleSet(account)),
                  scores |-> sc, result |-> search_roles(q, account, limit, sc)]

\* searcher.get_best_match(q, candidates) with the candidate lists the
\* selector passes: list(all_accounts_set), the sorted available_roles of an
\* account, and an empty list
CallGetBestMatch ==
  /\ OneCall
  /\ \E q \in FirstInputs, account \in AccountSet \cup {None, UnknownAccount} :
       LET candidates == IF account = None THEN list_set(AccountSet)
                         ELSE sorted(RoleSet(account))
       IN  \E sc \in WRatioTables(q, Range(candidates)) :
             call' = [op |-> "get_best_match", query |-> q, limit |-> 1,
                      account |-> account, candidates |-> candidates,
                      scores |-> sc, result |-> get_best_match(q, candidates, sc)]

SearchNext ==
  \/ CallSearchAccounts
  \/ CallSearchRoles
  \/ CallGetBestMatch

SearchInit == Init /\ history = <<>>

SearchSpec == SearchInit /\ [][SearchNext]_vars

(* ------------------------------------------------------------------ *)
(* ProfileHistory used directly: load, add_profile, clear              *)
(* ------------------------------------------------------------------ *)
\* a history file of ten different names
HistoryTen ==
  << <<"p", "1">>, <<"p", "2">>, <<"p", "3">>, <<"p", "4">>, <<"p", "5">>,
     <<"p", "6">>, <<"p", "7">>, <<"p", "8">>, <<"p", "9">>, <<"p", "a">> >>

\* a history file that holds a name twice
HistoryTwice == << <<"p", "1">>, <<"p", "2">>, <<"p", "1">> >>

\* a history file of eleven different names
HistoryEleven == HistoryTen \o << <<"p", "b">> >>

\* what the history file can hold when a ProfileHistory is made: no file,
\* no JSON, or any list of names, whoever wrote it
HistoryFiles ==
  {Absent, Corrupt, <<>>, HistorySeven, HistoryTen, HistoryTwice, HistoryEleven}

\* the names add_profile is called with: one in the lists, the last of the
\* ten, and one in none of them
AddedNames == {<<"p", "1">>, <<"p", "a">>, <<"p", "n">>}

\* what a call of ProfileHistory leaves alone
HistoryFrame ==
  UNCHANGED <<other_vars, profiles, hashorder, pc, typed, wratio, valid_recent, query,
              scores, matches, shown, account_name, role_name, run_result,
              stage, how, picked, initial_query>>

\* ProfileHistory(history_file): a new instance loads the file
HistoryLoad ==
  /\ history' = load_history(history_file)
  /\ call' = [op |-> "load", before |-> history]
  /\ UNCHANGED history_file
  /\ HistoryFrame

\* history.add_profile(p); its _save_history succeeds or fails
HistoryAddProfile ==
  /\ \E p \in AddedNames, ok \in BOOLEAN :
       /\ history' = add_profile(history, p)
       /\ history_file' = save_history(history', history_file, ok)
       /\ call' = [op |-> "add_profile", name |-> p, before |-> history, saved |-> ok]
  /\ HistoryFrame

\* history.clear(); its _save_history succeeds or fails
HistoryClear ==
  /\ \E ok \in BOOLEAN :
       /\ history' = <<>>
       /\ history_file' = save_history(history', history_file, ok)
       /\ call' = [op |-> "clear", before |-> history, saved |-> ok]
  /\ HistoryFrame

HistoryNext ==
  \/ HistoryLoad
  \/ HistoryAddProfile
  \/ HistoryClear

HistoryInit ==
  /\ history_file \in HistoryFiles
  /\ history = load_history(history_file)
  /\ profiles = <<>>
  /\ hashorder = <<>>
  /\ pc = "Idle"
  /\ typed = None
  /\ wratio = <<>>
  /\ valid_recent = <<>>
  /\ query = None
  /\ scores = <<>>
  /\ matches = <<>>
  /\ shown = <<>>
  /\ account_name = None
  /\ role_name = None
  /\ run_result = None
  /\ stage = "none"
  /\ how = "none"
  /\ call = NoCall
  /\ picked = None
  /\ initial_query = None
  /\ sections = <<>>
  /\ parsed = <<>>
  /\ main = NoMain
  /\ current_index = -1
  /\ buffer = EmptyStr

HistorySpec == HistoryInit /\ [][HistoryNext]_vars

(* ------------------------------------------------------------------ *)
(* config_parser.py: AWSConfigParser.parse_config                      *)
(* ------------------------------------------------------------------ *)
\* not x, for a str or None
Falsy(x) == x \in {None, EmptyStr}

\* a or b
Or(a, b) == IF Falsy(a) THEN b ELSE a

\* f"Account-{sso_account_id}"; a missing id is formatted as "None"
AccountOfId(id) == <<"Account-">> \o (IF id = None THEN <<"None">> ELSE id)

\* SSOProfile(...): the record is made
SSOProfile(profile_name, account, id, role, url) ==
  [profile_name |-> profile_name, sso_account_name |-> account,
   sso_account_id |-> id, sso_role_name |-> role, sso_start_url |-> url]

\* SSOProfile.__post_init__ raises ValueError
PostInitRaises(p) ==
  \/ Falsy(p.profile_name)
  \/ Falsy(p.sso_account_name)
  \/ Falsy(p.sso_account_id)
  \/ Falsy(p.sso_role_name)
  \/ Falsy(p.sso_start_url)

\* AWSConfigParser._is_sso_profile(section); a key that is not in the
\* section has the value None, a key without a value has ""
is_sso_profile(section) ==
  \/ section.sso_auto_populated = <<"true">>
  \/ /\ section.sso_start_url # None
     /\ section.sso_account_id # None
     /\ section.sso_role_name # None

\* _extract_sso_profile raised InvalidProfileError
InvalidProfile == [error |-> "InvalidProfileError"]

\* AWSConfigParser._extract_sso_profile(profile_name, section): the
\* SSOProfile, or InvalidProfile when it raises
extract_sso_profile(section) ==
  LET sso_account_name ==
        Or(section.sso_account_name,
           Or(section.account_name, AccountOfId(section.sso_account_id)))
      p == SSOProfile(section.name, sso_account_name, section.sso_account_id,
                      section.sso_role_name, section.sso_start_url)
  IN  IF \/ Falsy(section.sso_start_url)
         \/ Falsy(section.sso_account_id)
         \/ Falsy(section.sso_role_name)
      THEN InvalidProfile
      ELSE IF PostInitRaises(p) THEN InvalidProfile ELSE p

\* what a key of a section can hold: nothing (the key is not there), the
\* empty string, a value
FieldValues(v) == {None, EmptyStr, v}

\* the "profile <name>" sections a config file can hold
Sections ==
  [name : {EmptyStr, <<"p", "1">>},
   sso_start_url : FieldValues(<<"u">>),
   sso_account_id : FieldValues(<<"1">>),
   sso_role_name : FieldValues(<<"r">>),
   sso_account_name : FieldValues(<<"a">>),
   account_name : {None, <<"b">>},
   sso_auto_populated : {None, <<"true">>}]

\* a section with every key
FullSection ==
  [name |-> <<"p", "2">>, sso_start_url |-> <<"u">>, sso_account_id |-> <<"2">>,
   sso_role_name |-> <<"r">>, sso_account_name |-> <<"a">>, account_name |-> None,
   sso_auto_populated |-> None]

\* what parse_config leaves alone
ParserFrame ==
  UNCHANGED <<hashorder, history, pc, typed, wratio, valid_recent, query,
              scores, matches, shown, account_name, role_name, run_result,
              stage, how, call, history_file, picked, initial_query, main,
              current_index, buffer>>

\* one pass of the loop over config.sections(): the section is skipped when
\* it is no SSO profile or its extraction raises InvalidProfileError
ParseSection ==
  /\ sections # <<>>
  /\ LET section == Head(sections)
         profile == extract_sso_profile(section)
     IN  parsed' = IF is_sso_profile(section) /\ profile # InvalidProfile
                   THEN Append(parsed, profile) ELSE parsed
  /\ sections' = Tail(sections)
  /\ UNCHANGED profiles
  /\ ParserFrame

\* after the loop: self.profiles = profiles
ParseDone ==
  /\ sections = <<>>
  /\ profiles # parsed
  /\ profiles' = parsed
  /\ UNCHANGED <<sections, parsed>>
  /\ ParserFrame

LoadNext ==
  \/ ParseSection
  \/ ParseDone

\* a config file of one section, or of one section and a full one after it
LoadInit ==
  /\ \E s \in Sections : sections \in {<<s>>, <<s, FullSection>>}
  /\ parsed = <<>>
  /\ profiles = <<>>
  /\ hashorder = <<>>
  /\ history_file = Absent
  /\ history = <<>>
  /\ pc = "Idle"
  /\ typed = None
  /\ wratio = <<>>
  /\ valid_recent = <<>>
  /\ query = None
  /\ scores = <<>>
  /\ matches = <<>>
  /\ shown = <<>>
  /\ account_name = None
  /\ role_name = None
  /\ run_result = None
  /\ stage = "none"
  /\ how = "none"
  /\ call = [op |-> "none"]
  /\ picked = None
  /\ initial_query = None
  /\ main = NoMain
  /\ current_index = -1
  /\ buffer = EmptyStr

LoadSpec == LoadInit /\ [][LoadNext]_vars

(* ------------------------------------------------------------------ *)
(* cli.py: main()                                                      *)
(* ------------------------------------------------------------------ *)
\* lines the selection may print before it ends, in the model
MaxPrints == 2

\* the command line flags
Args == [exec : BOOLEAN, test : BOOLEAN, info : BOOLEAN, quiet : BOOLEAN]

\* ShellDetector.detect_shell(); zsh and unknown shells count as bash
Shells == {"bash", "fish", "csh", "powershell", "cmd"}

\* ShellDetector.generate_export_command(profile_name): one line of text
generate_export_command(shell, profile_name) ==
  CASE shell = "powershell" -> <<"$env:AWS_PROFILE = \"">> \o profile_name \o <<"\"">>
    [] shell = "cmd" -> <<"set AWS_PROFILE=">> \o profile_name
    [] shell = "fish" -> <<"set -gx AWS_PROFILE \"">> \o profile_name \o <<"\"">>
    [] shell = "csh" -> <<"setenv AWS_PROFILE \"">> \o profile_name \o <<"\"">>
    [] OTHER -> <<"export AWS_PROFILE=\"">> \o profile_name \o <<"\"">>

\* a line print() writes while the selection runs
SelectorLine == <<"<selector>">>

\* print(f"source {temp_script}")
SourceLine == <<"source ", "<temp_script>">>

\* print(f"Testing profile: {selected_profile}")
TestingLine(profile_name) == <<"Testing profile: ">> \o profile_name

\* what --test prints after that line: the identity, a failure, a timeout,
\* no AWS CLI
TestReports ==
  { << <<"Profile is working correctly!">>, <<"<stdout of aws>">> >>,
    << <<"Profile test failed:">>, <<"<stderr of aws>">> >>,
    << <<"AWS CLI command timed out">> >>,
    << <<"AWS CLI not found">> >> }

\* sys.stdout was not saved
NoStream == "None"

\* what switcher.run() can hand to main(): a value of Optional[str], or
\* an exception
RunReturnValues == {None, EmptyStr, <<"p", "1">>, <<"p", "2">>}

RunExceptions == {"AWSProfileSwitchError", "KeyboardInterrupt", "Exception"}

\* mutant: stdout is redirected with --quiet only
Redirects_QuietOnly(args) == args.quiet

\* args.quiet or not (args.exec or args.test or args.info)
Redirects(args) == args.quiet \/ ~(args.exec \/ args.test \/ args.info)

\* mutant: any str selects, the empty one too
Selected_NotNone(selected_profile) == selected_profile # None

\* if selected_profile:
Selected(selected_profile) == ~Falsy(selected_profile)

\* what main() leaves alone
MainFrame ==
  UNCHANGED <<sections, parsed, profiles, hashorder, history, pc, typed,
              wratio, valid_recent, query, scores, matches, shown,
              account_name, role_name, run_result, stage, how, call,
              history_file, picked, initial_query, current_index, buffer>>

\* main() with --info: the usage goes to stderr and main() returns
MainInfo ==
  /\ main.pc = "called"
  /\ main.args.info
  /\ main' = [main EXCEPT !.pc = "exited", !.status = 0]
  /\ MainFrame

\* main() up to the call of run(): stdout is redirected when Redirects, and
\* AWSProfileSwitcher() is made, or raises, which `except Exception` handles
MainStart ==
  /\ main.pc = "called"
  /\ ~main.args.info
  /\ LET redirected ==
           IF Redirects(main.args)
           THEN [main EXCEPT !.original_stdout = "stdout", !.sys_stdout = "stderr"]
           ELSE main
     IN  \/ main' = [redirected EXCEPT !.pc = "running"]
         \/ main' = [redirected EXCEPT !.pc = "exited", !.status = 1,
                                       !.ran = [kind |-> "raises", value |-> <<"Exception">>]]
  /\ MainFrame

\* the selection prints a line: it goes where sys.stdout points
SelectorPrints ==
  /\ main.pc = "running"
  /\ main.printed < MaxPrints
  /\ main' = [main EXCEPT
                !.printed = @ + 1,
                !.stdout = IF main.sys_stdout = "stdout"
                           THEN Append(@, SelectorLine) ELSE @]
  /\ MainFrame

\* run() returns value: stdout is restored, and main() goes on to its end
RunReturns ==
  /\ main.pc = "running"
  /\ \E value \in RunReturnValues, report \in TestReports :
       LET restored ==
             [main EXCEPT
                !.sys_stdout = IF main.original_stdout # NoStream
                               THEN main.original_stdout ELSE @,
                !.ran = [kind |-> "returns", value |-> value],
                !.selected_profile = value,
                !.pc = "exited"]
           shell_command == generate_export_command(main.shell, value)
       IN  IF Selected(value)
           THEN main' = [restored EXCEPT
                  !.shell_calls = @ + 1,
                  !.status = 0,
                  !.stdout =
                     IF main.args.exec THEN Append(@, SourceLine)
                     ELSE IF main.args.test
                     THEN Append(@, TestingLine(value)) \o report
                     ELSE Append(@, shell_command)]
           ELSE main' = [restored EXCEPT !.status = 1]
  /\ MainFrame

\* run() raises: main() prints the error to stderr and exits with 1;
\* sys.stdout is not restored
RunRaises ==
  /\ main.pc = "running"
  /\ \E e \in RunExceptions :
       main' = [main EXCEPT !.pc = "exited", !.status = 1,
                            !.ran = [kind |-> "raises", value |-> <<e>>]]
  /\ MainFrame

MainNext ==
  \/ MainInfo
  \/ MainStart
  \/ SelectorPrints
  \/ RunReturns
  \/ RunRaises

MainInit ==
  /\ \E args \in Args, shell \in Shells :
       main = [pc |-> "called", args |-> args, shell |-> shell,
               sys_stdout |-> "stdout", original_stdout |-> NoStream,
               ran |-> [kind |-> "pending", value |-> None],
               selected_profile |-> None, shell_calls |-> 0, printed |-> 0,
               stdout |-> <<>>, status |-> -1]
  /\ current_index = -1
  /\ buffer = EmptyStr
  /\ sections = <<>>
  /\ parsed = <<>>
  /\ profiles = <<>>
  /\ hashorder = <<>>
  /\ history_file = Absent
  /\ history = <<>>
  /\ pc = "Idle"
  /\ typed = None
  /\ wratio = <<>>
  /\ valid_recent = <<>>
  /\ query = None
  /\ scores = <<>>
  /\ matches = <<>>
  /\ shown = <<>>
  /\ account_name = None
  /\ role_name = None
  /\ run_result = None
  /\ stage = "none"
  /\ how = "none"
  /\ call = [op |-> "none"]
  /\ picked = None
  /\ initial_query = None

MainSpec == MainInit /\ [][MainNext]_vars

(* ------------------------------------------------------------------ *)
(* ui.py: the "Account: " prompt of search_accounts_with_history, key   *)
(* by key (Spec takes the keys up to Enter as one step)                 *)
(* ------------------------------------------------------------------ *)
\* the longest text typed into the buffer, in the model
MaxBuffer == 2

\* what a key handler leaves alone
KeysFrame ==
  UNCHANGED <<sections, parsed, main, profiles, hashorder, history, pc, typed,
              wratio, valid_recent, query, scores, matches, shown,
              account_name, role_name, run_result, stage, how, history_file,
              picked, initial_query>>

\* @bindings.add(Keys.Up)
KeyUp ==
  /\ pc = "AccountPrompt"
  /\ IF current_index < Len(valid_recent) - 1
     THEN /\ current_index' = current_index + 1
          /\ buffer' = valid_recent[(current_index + 1) + 1][2]
     ELSE UNCHANGED <<current_index, buffer>>
  /\ call' = [op |-> "Up"]
  /\ KeysFrame

\* mutant: Down at the first recent profile leaves its account in the buffer
KeyDown_KeepsText ==
  /\ pc = "AccountPrompt"
  /\ IF current_index > 0
     THEN /\ current_index' = current_index - 1
          /\ buffer' = valid_recent[(current_index - 1) + 1][2]
     ELSE IF current_index = 0
     THEN /\ current_index' = -1
          /\ UNCHANGED buffer
     ELSE UNCHANGED <<current_index, buffer>>
  /\ call' = [op |-> "Down"]
  /\ KeysFrame

\* @bindings.add(Keys.Down)
KeyDown ==
  /\ pc = "AccountPrompt"
  /\ IF current_index > 0
     THEN /\ current_index' = current_index - 1
          /\ buffer' = valid_recent[(current_index - 1) + 1][2]
     ELSE IF current_index = 0
     THEN /\ current_index' = -1
          /\ buffer' = EmptyStr
     ELSE UNCHANGED <<current_index, buffer>>
  /\ call' = [op |-> "Down"]
  /\ KeysFrame

\* the user types a character: prompt_toolkit inserts it in the buffer; the
\* cursor of the history is not touched
KeyChar ==
  /\ pc = "AccountPrompt"
  /\ Len(buffer) < MaxBuffer
  /\ \E c \in {"a", "x"} : buffer' = Append(buffer, c)
  /\ call' = [op |-> "Char"]
  /\ UNCHANGED current_index
  /\ KeysFrame

KeysNext ==
  \/ KeyUp
  \/ KeyDown
  \/ KeyChar

\* run() has reached the prompt of search_accounts_with_history: the
\* history gave at least one profile of the catalog
KeysInit ==
  /\ profiles \in Catalogs
  /\ hashorder \in HashOrders(profiles)
  /\ history_file \in Histories \cup {HistoryTen}
  /\ history = load_history(history_file)
  /\ valid_recent = ValidRecent(get_recent_profiles(history))
  /\ valid_recent # <<>>
  /\ pc = "AccountPrompt"
  /\ current_index = -1
  /\ buffer = EmptyStr
  /\ sections = <<>>
  /\ parsed = <<>>
  /\ main = NoMain
  /\ typed = None
  /\ wratio = <<>>
  /\ query = None
  /\ scores = <<>>
  /\ matches = <<>>
  /\ shown = <<>>
  /\ account_name = None
  /\ role_name = None
  /\ run_result = None
  /\ stage = "none"
  /\ how = "none"
  /\ call = NoCall
  /\ picked = None
  /\ initial_query = None

KeysSpec == KeysInit /\ [][KeysNext]_vars

(* ------------------------------------------------------------------ *)
(* Properties                                                          *)
(* ------------------------------------------------------------------ *)
\* a line of text, not an interrupt, is about to be handled
TextTyped == typed \notin {None, Interrupt}

\* the best score a table gives over the candidates S
BestOver(sc, S) == CHOOSE v \in {sc[c] : c \in S} : \A c \in S : sc[c] <= v

\* x comes before y in the sequence s
Before(s, x, y) ==
  \E i, j \in 1..Len(s) : i < j /\ s[i] = x /\ s[j] = y

\* out is a ranking of the candidates cands by the scores sc with the floor
\* MinScore and the limit given: members of cands, none twice, every score
\* above the floor, scores non-increasing, at most limit entries, and a
\* candidate above the floor is left out only when the list is full and
\* none of its entries scores less
IsRank(out, cands, sc, limit) ==
  /\ Len(out) <= limit
  /\ \A i \in 1..Len(out) : out[i] \in cands /\ sc[out[i]] > MinScore
  /\ \A i, j \in 1..Len(out) : i < j => out[i] # out[j] /\ sc[out[i]] >= sc[out[j]]
  /\ \A c \in cands \ Range(out) :
       sc[c] > MinScore =>
         /\ Len(out) = limit
         /\ \A i \in 1..Len(out) : sc[out[i]] >= sc[c]

\* C1: at the account stage and at the role stage, a stripped text equal
\* (case-sensitively) to a member of the stage's candidate set resolves the
\* stage to exactly that member, by the exact-match return, whatever scores
\* the scorer gives the candidates
C1_ExactMatchResolves ==
  [][ /\ (pc = "AccountPrompt" /\ TextTyped /\ strip(typed) \in AccountSet)
           => /\ account_name' = strip(typed)
              /\ how' = "exact"
              /\ pc' = "RolePrompt"
      /\ (pc = "RolePrompt" /\ TextTyped /\ strip(typed) \in RoleSet(account_name))
           => /\ role_name' = strip(typed)
              /\ how' = "exact"
              /\ pc' # "RoleChoice" ]_vars

\* C1 witness: the account stage resolved "a" by exact match although "A",
\* which the scorer cannot tell from "a", comes first among the candidates
C1_Witness ==
  /\ stage = "account"
  /\ how = "exact"
  /\ pc = "RolePrompt"
  /\ account_name = <<"a">>
  /\ Before(hashorder, <<"A">>, <<"a">>)

\* C2: when the exact-match check fails, the stage accepts the best fuzzy
\* match automatically if and only if the best score is above 70; with a
\* best score of 70 or less nothing is accepted and the stage goes on to the
\* ranked list (the second prompt, or no match when the list is empty)
C2_AutoAcceptAbove70 ==
  [][ /\ (pc = "AccountPrompt" /\ TextTyped /\ strip(typed) # <<>>
            /\ strip(typed) \notin AccountSet)
           => LET best == BestOver(wratio, AccountSet)
              IN  /\ (how' = "auto") <=> (best > AutoAccept)
                  /\ how' = "auto" =>
                       /\ account_name' \in AccountSet
                       /\ wratio[account_name'] = best
                       /\ pc' = "RolePrompt"
                  /\ best <= AutoAccept =>
                       /\ account_name' = None
                       /\ how' \in {"ask", "nomatch"}
                       /\ (how' = "ask") <=> (pc' = "AccountChoice")
      /\ (pc = "RolePrompt" /\ TextTyped /\ strip(typed) # <<>>
            /\ strip(typed) \notin RoleSet(account_name))
           => LET best == BestOver(wratio, RoleSet(account_name))
              IN  /\ (how' = "auto") <=> (best > AutoAccept)
                  /\ how' = "auto" =>
                       /\ role_name' \in RoleSet(account_name)
                       /\ wratio[role_name'] = best
                  /\ best <= AutoAccept =>
                       /\ role_name' = None
                       /\ how' \in {"ask", "nomatch"}
                       /\ (how' = "ask") <=> (pc' = "RoleChoice") ]_vars

\* C2 witness: a best score of exactly 70 was not accepted; the account
\* stage is at its second prompt
C2_Witness ==
  /\ pc = "AccountChoice"
  /\ how = "ask"
  /\ BestOver(scores, AccountSet) = AutoAccept

\* the candidate set of the stage that is at its second prompt
StageCandidates ==
  IF pc = "AccountChoice" THEN AccountSet ELSE RoleSet(account_name)

\* C3 as claimed: at the second prompt of the account stage and of the role
\* stage the numbered list is a ranking with limit 5
C3_ShownIsRankLimit5 ==
  pc \in {"AccountChoice", "RoleChoice"} =>
    /\ Len(shown) <= ShownAccounts
    /\ IsRank(shown, StageCandidates, scores, ShownAccounts)

\* C3 amended: the account stage numbers the first 5 entries of the ranking
\* it keeps (limit 10), which are a ranking with limit 5; the role stage
\* numbers its whole ranking, which has limit 10
C3_ShownLists ==
  /\ pc = "AccountChoice" =>
       /\ shown # <<>>
       /\ shown = Take(matches, ShownAccounts)
       /\ IsRank(shown, AccountSet, scores, ShownAccounts)
       /\ IsRank(matches, AccountSet, scores, DefaultLimit)
  /\ pc = "RoleChoice" =>
       /\ shown # <<>>
       /\ shown = matches
       /\ IsRank(shown, RoleSet(account_name), scores, DefaultLimit)

\* C3 witness: the role stage numbered 10 of an account's 11 roles
C3_Witness ==
  /\ pc = "RoleChoice"
  /\ Cardinality(RoleSet(account_name)) > DefaultLimit
  /\ Len(shown) = DefaultLimit

\* the stage result a handler step leaves, for the stage at its second prompt
ChosenNext == IF pc = "AccountChoice" THEN account_name' ELSE role_name'

\* a decimal number is about to be handled at a second prompt
NumberTyped ==
  /\ pc \in {"AccountChoice", "RoleChoice"}
  /\ TextTyped
  /\ isdigit(strip(typed))
  /\ ~IntRaises(strip(typed))

\* C4: at a second prompt a number k resolves the stage only when k is a
\* 1-based index into the numbered list, and then to its k-th entry; 0 or a
\* number past the end of the numbered list resolves nothing
C4_NumberIndexesShown ==
  [][ NumberTyped =>
        LET k == int(strip(typed))
        IN  IF 1 <= k /\ k <= Len(shown)
            THEN ChosenNext = shown[k] /\ how' = "index"
            ELSE ChosenNext = None ]_vars

\* a text that is no number and not empty is about to be handled at a
\* second prompt
SecondTextTyped ==
  /\ pc \in {"AccountChoice", "RoleChoice"}
  /\ TextTyped
  /\ strip(typed) # <<>>
  /\ ~isdigit(strip(typed))

\* C5: a second text that is not numeric and not empty is scored against
\* the ranked candidates of the first text only; it resolves the stage if
\* and only if its best score among them is above 50, and then to one of
\* them with that score
C5_SecondTextAbove50 ==
  [][ SecondTextTyped =>
        LET best == BestOver(wratio, Range(matches))
        IN  /\ (how' = "second") <=> (best > SecondAccept)
            /\ how' = "second" =>
                 /\ ChosenNext \in Range(matches)
                 /\ wratio[ChosenNext] = best
            /\ best <= SecondAccept =>
                 /\ ChosenNext = None
                 /\ how' = "rejected"
                 /\ pc' = "Done" ]_vars

\* C5 witness: the role stage resolved by a second text
C5_Witness ==
  /\ stage = "role"
  /\ how = "second"
  /\ role_name \in RoleSet(account_name)

\* C6 as claimed: after the account stage found no match the pipeline is
\* still selecting the account
C6_NoMatchStaysSelecting ==
  (stage = "account" /\ how = "nomatch") => pc \in {"AccountPrompt", "AccountChoice"}

\* C6 amended: when no account scores above 30 for the text, the account
\* stage returns no selection and run() returns None at once: the run is
\* over without a selection, no role is asked for, the history is unchanged
C6_NoMatchEndsRun ==
  [][ (pc = "AccountPrompt" /\ TextTyped /\ strip(typed) # <<>>
         /\ \A c \in AccountSet : wratio[c] <= MinScore)
        => /\ how' = "nomatch"
           /\ account_name' = None
           /\ pc' = "Done"
           /\ run_result' = None
           /\ role_name' = None
           /\ history' = history ]_vars

\* C6 witness: the run is over because the account stage found no match
C6_Witness ==
  /\ stage = "account"
  /\ how = "nomatch"
  /\ pc = "Done"
  /\ run_result = None

\* a direct call of search_accounts or search_roles was made
RankCalled == call.op \in {"search_accounts", "search_roles"}

\* C7: for every query, candidate set and limit, search_accounts and
\* search_roles return the candidates scoring above 30, by non-increasing
\* score, cut to the first `limit` entries: no entry scores 30 or less, and
\* no candidate above 30 is left out while a lower-scoring one is returned
C7_RankFloorOrderCut ==
  RankCalled =>
    IsRank(call.result, Range(call.candidates), call.scores, call.limit)

\* C7 witness: a ranking cut by its limit, holding a candidate that scores
\* 31, with a candidate that scores 30 and one above 30 left out
C7_Witness ==
  /\ RankCalled
  /\ call.limit >= 1
  /\ Len(call.result) = call.limit
  /\ \E i \in 1..Len(call.result) : call.scores[call.result[i]] = MinScore + 1
  /\ \E c \in Range(call.candidates) \ Range(call.result) : call.scores[c] = MinScore
  /\ \E c \in Range(call.candidates) \ Range(call.result) : call.scores[c] > MinScore

\* C8: for a non-empty query equal to a candidate, the ranking starts with
\* that candidate and get_best_match returns it, at score 100, also when
\* another candidate reaches the top score
C8_ExactQueryWins ==
  /\ (RankCalled /\ call.limit >= 1 /\ call.query \in Range(call.candidates))
       => /\ call.result # <<>>
          /\ call.result[1] = call.query
          /\ call.scores[call.query] = MaxScore
  /\ (call.op = "get_best_match" /\ call.query \in Range(call.candidates))
       => call.result = <<call.query, MaxScore>>

\* rank(query, candidates, 1) for the candidates of a get_best_match call
RankLimit1 ==
  IF call.account = None
  THEN search_accounts(call.query, 1, call.scores)
  ELSE search_roles(call.query, call.account, 1, call.scores)

\* C9 as claimed: get_best_match returns the first entry of the ranking with
\* limit 1, and the sentinel ("", 0) when that ranking is empty
C9_BestMatchIsRankLimit1 ==
  call.op = "get_best_match" =>
    call.result = IF RankLimit1 # <<>>
                  THEN <<RankLimit1[1], call.scores[RankLimit1[1]]>>
                  ELSE <<EmptyStr, 0>>

\* C9 amended: get_best_match returns the sentinel only for a blank query or
\* an empty list; otherwise it returns the first best-scoring candidate of
\* its list with that score, also when the score is 30 or less.  When the
\* best score is above 30 it is the score of the one entry of the ranking
\* with limit 1, and when it is not, that ranking is empty
C9_BestMatchNoFloor ==
  call.op = "get_best_match" =>
    IF strip(call.query) = <<>> \/ call.candidates = <<>>
    THEN call.result = <<EmptyStr, 0>>
    ELSE LET best == BestOver(call.scores, Range(call.candidates))
         IN  /\ call.result[2] = best
             /\ call.result[1] \in Range(call.candidates)
             /\ call.scores[call.result[1]] = best
             /\ \A c \in Range(call.candidates) :
                  Before(call.candidates, c, call.result[1]) => call.scores[c] < best
             /\ best > MinScore =>
                  /\ RankLimit1 # <<>>
                  /\ call.scores[RankLimit1[1]] = best
             /\ best <= MinScore => RankLimit1 = <<>>

\* C9 witness: get_best_match returned a candidate with a score of 30
C9_Witness ==
  /\ call.op = "get_best_match"
  /\ call.result[1] \in Range(call.candidates)
  /\ call.result[2] = MinScore

\* the place of a candidate in the catalog: the first record that has it
FirstRecord(name) ==
  CHOOSE i \in 1..Len(profiles) :
    /\ IF call.op = "search_accounts"
       THEN profiles[i].sso_account_name = name
       ELSE profiles[i].sso_account_name = call.account
              /\ profiles[i].sso_role_name = name
    /\ \A j \in 1..(i - 1) :
         ~ IF call.op = "search_accounts"
           THEN profiles[j].sso_account_name = name
           ELSE profiles[j].sso_account_name = call.account
                  /\ profiles[j].sso_role_name = name

\* C10: candidates with equal scores appear in the ranking in the order in
\* which the catalog holds them, so the ranking does not depend on the order
\* in which the candidates are scored
C10_TiesInCatalogOrder ==
  RankCalled =>
    \A i, j \in 1..Len(call.result) :
      (i < j /\ call.scores[call.result[i]] = call.scores[call.result[j]])
        => FirstRecord(call.result[i]) < FirstRecord(call.result[j])

\* a direct call had nothing to compare: a blank query, or no candidate
NothingToCompare == strip(call.query) = <<>> \/ call.candidates = <<>>

\* C11: for an empty or whitespace-only query, and for an empty candidate
\* set (no profile at all, or the roles of an account no record has),
\* search_accounts and search_roles return [] and get_best_match returns
\* ("", 0): the call returns that value, it does not raise
C11_NothingToCompare ==
  /\ (RankCalled /\ NothingToCompare) => call.result = <<>>
  /\ (call.op = "get_best_match" /\ NothingToCompare)
       => call.result = <<EmptyStr, 0>>

\* C11 witness: get_best_match returned the sentinel for a whitespace-only
\* query although there were candidates
C11_Witness ==
  /\ call.op = "get_best_match"
  /\ call.query = <<" ">>
  /\ call.candidates # <<>>
  /\ call.result = <<EmptyStr, 0>>

\* some record has this account name and this role name, letter for letter
RoleOfAccount(role, account) ==
  \E i \in 1..Len(profiles) :
    /\ profiles[i].sso_account_name = account
    /\ profiles[i].sso_role_name = role

\* C12: whatever the role stage resolves to (by exact match, automatically,
\* by number or by a second text) is the role of a record of the chosen
\* account, and so is every role it ranks or prints; a role that only
\* records of other accounts have is never offered or returned
C12_RolesOfChosenAccount ==
  /\ role_name # None => RoleOfAccount(role_name, account_name)
  /\ pc = "RoleChoice" =>
       /\ \A i \in 1..Len(matches) : RoleOfAccount(matches[i], account_name)
       /\ \A i \in 1..Len(shown) : RoleOfAccount(shown[i], account_name)

\* C12 witness: under account "b" the role stage accepted a best match while
\* the catalog has a role, "b", that only account "a" has
C12_Witness ==
  /\ stage = "role"
  /\ how = "auto"
  /\ account_name = <<"b">>
  /\ role_name = <<"a">>
  /\ RoleOfAccount(<<"b">>, <<"a">>)
  /\ ~RoleOfAccount(<<"b">>, <<"b">>)

\* the places in the catalog of the records with this account and role
MatchIdx(account, role) ==
  {i \in 1..Len(profiles) :
     profiles[i].sso_account_name = account /\ profiles[i].sso_role_name = role}

\* the place in the catalog of the k-th of them, counted in catalog order
KthMatch(k, account, role) ==
  CHOOSE i \in MatchIdx(account, role) :
    Cardinality({j \in MatchIdx(account, role) : j <= i}) = k

\* C13: when exactly one record has the chosen account and role, the step
\* that resolves the role also ends the run with that record's profile name,
\* no prompt in between; the profile prompt appears only when several
\* records match, and a number i from 1 to their count returns the i-th of
\* them in catalog order
C13_ProfileStage ==
  [][ /\ (pc \in {"RolePrompt", "RoleChoice"} /\ role_name' # None
            /\ Cardinality(MatchIdx(account_name, role_name')) = 1)
           => /\ pc' = "Done"
              /\ run_result' = profiles[KthMatch(1, account_name, role_name')].profile_name
      /\ (pc # "ProfilePrompt" /\ pc' = "ProfilePrompt")
           => Cardinality(MatchIdx(account_name, role_name')) > 1
      /\ (pc = "ProfilePrompt" /\ TextTyped /\ isdigit(strip(typed))
            /\ ~IntRaises(strip(typed))
            /\ 1 <= int(strip(typed))
            /\ int(strip(typed)) <= Cardinality(MatchIdx(account_name, role_name)))
           => /\ pc' = "Done"
              /\ how' = "index"
              /\ run_result' =
                   profiles[KthMatch(int(strip(typed)), account_name, role_name)].profile_name
    ]_vars

\* C13 witness: of the two profiles of account "b" and role "a" the second
\* in the catalog was chosen by its number
C13_Witness ==
  /\ stage = "profile"
  /\ how = "index"
  /\ account_name = <<"b">>
  /\ role_name = <<"a">>
  /\ run_result = <<"p", "4">>

\* the text about to be handled at the profile prompt is a number from 1 to
\* the count of the matching records
ValidProfileIndex ==
  /\ TextTyped
  /\ isdigit(strip(typed))
  /\ ~IntRaises(strip(typed))
  /\ 1 <= int(strip(typed))
  /\ int(strip(typed)) <= Cardinality(MatchIdx(account_name, role_name))

\* C14: at the profile prompt any input that is not a number from 1 to the
\* count of the matching records (0, a number past the end, text that is no
\* number, nothing, an interrupt or the end of the input) cancels: the run
\* ends without a selection, nothing is raised, nothing is asked again
C14_InvalidChoiceCancels ==
  [][ (pc = "ProfilePrompt" /\ typed # None /\ ~ValidProfileIndex)
        => /\ pc' = "Done"
           /\ run_result' = None
           /\ history' = history ]_vars

\* C15: when the user picks an entry of the recent-profile list, the run
\* moves straight on to the role stage, for the account of the picked
\* profile and with the role of the picked profile filled in
C15_PickSeedsRole ==
  [][ (pc = "AccountPrompt" /\ picked # None /\ TextTyped)
        => /\ pc' = "RolePrompt"
           /\ account_name' = picked[2]
           /\ initial_query' = FindProfile(picked[1]).sso_role_name ]_vars

\* C16: the recent-profile list run() starts the account stage with is made
\* of the first 5 names of the history, in their order, without the names
\* that are no profile of the catalog, each with the account of its profile;
\* a dropped name is no error; with no name left (or an empty history) the
\* account stage runs as search_accounts, where nothing can be picked
C16_SeedList ==
  [][ /\ (pc = "Idle" /\ profiles # <<>>)
           => LET first == SubSeq(history, 1, Min(SeedLimit, Len(history)))
                  live == SelectSeq(first,
                            LAMBDA n : \E i \in 1..Len(profiles) :
                                         profiles[i].profile_name = n)
              IN  /\ pc' = "AccountPrompt"
                  /\ Len(valid_recent') = Len(live)
                  /\ Len(valid_recent') <= SeedLimit
                  /\ \A k \in 1..Len(live) :
                       /\ valid_recent'[k][1] = live[k]
                       /\ \E i \in 1..Len(profiles) :
                            /\ profiles[i].profile_name = live[k]
                            /\ profiles[i].sso_account_name = valid_recent'[k][2]
      /\ (pc = "AccountPrompt" /\ valid_recent = <<>>) => picked' = None
    ]_vars

\* C16 witness: of seven recent names the list holds p3 and p1: three stale
\* names were dropped, and the profiles p2 and p4, sixth and seventh, are
\* not in it
C16_Witness ==
  /\ pc = "AccountPrompt"
  /\ history = HistorySeven
  /\ Len(valid_recent) = 2
  /\ valid_recent[1][1] = <<"p", "3">>
  /\ valid_recent[2][1] = <<"p", "1">>

\* no name is twice in the list h
NoDuplicates(h) == \A i, j \in 1..Len(h) : i # j => h[i] # h[j]

\* C17: after loading and after any add_profile and clear calls the history
\* holds at most 10 names and no name twice
C17_HistoryShape ==
  /\ Len(history) <= HistoryCap
  /\ NoDuplicates(history)

\* C18: add_profile(p) leaves p followed by the previous entries other than
\* p in their previous order, cut to 10 entries: a name already in the list
\* moves to the front and is not there twice, and on overflow the last
\* (least recently used) name goes
C18_AddProfileMovesToFront ==
  [][ call'.op = "add_profile" =>
        LET p == call'.name
            others == SelectSeq(history, LAMBDA n : n # p)
            all == <<p>> \o others
        IN  history' = SubSeq(all, 1, Min(HistoryCap, Len(all))) ]_vars

\* the profile name the three stages resolve in this step of run(), or None:
\* the role is resolved and one record matches, or a valid number is given
\* at the profile prompt
ResolvedNow ==
  IF /\ pc \in {"RolePrompt", "RoleChoice"}
     /\ role_name' # None
     /\ Cardinality(MatchIdx(account_name, role_name')) = 1
  THEN profiles[KthMatch(1, account_name, role_name')].profile_name
  ELSE IF pc = "ProfilePrompt" /\ ValidProfileIndex
  THEN profiles[KthMatch(int(strip(typed)), account_name, role_name)].profile_name
  ELSE None

\* C19: when the stages resolve a profile, add_profile updates the history
\* in memory and run() returns the profile, whether _save_history wrote the
\* file or failed and left it as it was; run() does not raise
C19_SaveFailureSwallowed ==
  [][ ResolvedNow # None =>
        /\ pc' = "Done"
        /\ run_result' = ResolvedNow
        /\ history' = add_profile(history, ResolvedNow)
        /\ history'[1] = ResolvedNow
        /\ history_file' \in {history', history_file} ]_vars

\* C19 witness: run() returned a profile and the history holds it in front,
\* while the file, whose writing failed, does not
C19_Witness ==
  /\ pc = "Done"
  /\ run_result \notin {None, Raised}
  /\ history # <<>>
  /\ history[1] = run_result
  /\ history_file # history

\* C20: run() changes the history in the step that resolves the profile, to
\* add_profile of the resolved name, and in no other step; a run that ends
\* without a selection (cancel, no match, invalid number) or by raising
\* leaves the history as it was
C20_RecordedOnce ==
  [][ /\ ResolvedNow # None =>
           /\ run_result' = ResolvedNow
           /\ history' = add_profile(history, ResolvedNow)
      /\ ResolvedNow = None => history' = history
      /\ (pc # "Done" /\ pc' = "Done" /\ run_result' \in {None, Raised})
           => /\ history' = history
              /\ history_file' = history_file
      /\ pc = "Done" => UNCHANGED <<history, history_file, run_result>> ]_vars

\* C20 witness: a run over a history of seven names ended with a selection,
\* which is now in front of the names that were there
C20_Witness ==
  /\ pc = "Done"
  /\ run_result \notin {None, Raised}
  /\ Len(history) = Len(HistorySeven)
  /\ history[1] = run_result
  /\ history # HistorySeven

\* the place of a prompt in the order of the stages
StageOrder(p) ==
  CASE p = "Idle" -> 0
    [] p \in {"AccountPrompt", "AccountChoice"} -> 1
    [] p \in {"RolePrompt", "RoleChoice"} -> 2
    [] p = "ProfilePrompt" -> 3
    [] OTHER -> 4

\* C21: the stages run in the order account, role, profile, none of them
\* after a later one; the role stage is entered only with an account and the
\* profile stage only with an account and a role; when the account stage or
\* the role stage returns no selection, run() returns None in that step and
\* no later stage is entered
C21_StagesInOrder ==
  [][ /\ StageOrder(pc') >= StageOrder(pc)
      /\ pc' \in {"RolePrompt", "RoleChoice"} =>
           /\ account_name' # None
           /\ StageOrder(pc) \in {1, 2}
      /\ pc' = "ProfilePrompt" =>
           /\ account_name' # None
           /\ role_name' # None
           /\ StageOrder(pc) \in {2, 3}
      /\ (StageOrder(pc) = 1 /\ typed # None /\ pc' # "AccountChoice"
            /\ how' # "raised" /\ account_name' = None)
           => pc' = "Done" /\ run_result' = None /\ role_name' = None
      /\ (StageOrder(pc) = 2 /\ typed # None /\ pc' # "RoleChoice"
            /\ how' # "raised" /\ role_name' = None)
           => pc' = "Done" /\ run_result' = None ]_vars

\* C21 witness: with an account chosen, the role stage found no match and
\* the run is over without a selection
C21_Witness ==
  /\ stage = "role"
  /\ how = "nomatch"
  /\ account_name # None
  /\ role_name = None
  /\ pc = "Done"
  /\ run_result = None

\* C22: when the history holds profiles of the catalog, run() first blocks
\* on the prompt of show_recent_profiles ("RecentPrompt"), and a recent
\* profile the user picks is what run() returns, recorded in the history,
\* with no role or profile prompt in between
C22_RecentProfileReturned ==
  [][ /\ (pc = "Idle" /\ ValidRecent(get_recent_profiles(history)) # <<>>)
           => pc' = "RecentPrompt"
      /\ (pc = "AccountPrompt" /\ picked # None /\ TextTyped)
           => /\ pc' = "Done"
              /\ run_result' = picked[1]
              /\ history' = add_profile(history, picked[1]) ]_vars

\* the section has every required field: a profile name and a non-empty
\* value of its own for the account name, account id, role name, start URL
HasRequired(section) ==
  /\ section.name # <<>>
  /\ section.sso_account_name \notin {None, <<>>}
  /\ section.sso_account_id \notin {None, <<>>}
  /\ section.sso_role_name \notin {None, <<>>}
  /\ section.sso_start_url \notin {None, <<>>}

\* C23: a section enters the catalog only when every required field
\* (profile name, account name, account id, role name, start URL) is there
\* and not empty, and then with its own values: the loader never fills in a
\* missing required field
C23_NoPatchedRecord ==
  [][ parsed' # parsed =>
        /\ HasRequired(Head(sections))
        /\ parsed' = Append(parsed,
             [profile_name |-> Head(sections).name,
              sso_account_name |-> Head(sections).sso_account_name,
              sso_account_id |-> Head(sections).sso_account_id,
              sso_role_name |-> Head(sections).sso_role_name,
              sso_start_url |-> Head(sections).sso_start_url]) ]_vars

\* the shell command is among the lines the real stdout got
CommandPrinted ==
  \E i \in 1..Len(main.stdout) :
    \E p \in RunReturnValues :
      p # None /\ main.stdout[i] = generate_export_command(main.shell, p)

\* C24: get_shell_command is called, and the shell command printed to
\* stdout, only when run() returned a non-empty profile name, and then
\* get_shell_command is called once, with that name; when run() returns
\* None or "" or raises (application error, interrupt, any other
\* exception) main() exits with status 1 without calling get_shell_command
C24_CommandOnlyForSelection ==
  /\ main.shell_calls \in {0, 1}
  /\ (main.shell_calls = 1 \/ CommandPrinted)
       => /\ main.ran.kind = "returns"
          /\ main.ran.value \notin {None, EmptyStr}
          /\ main.selected_profile = main.ran.value
          /\ main.shell_calls = 1
  /\ (main.ran.kind = "returns" /\ main.ran.value \notin {None, EmptyStr})
       => main.shell_calls = 1
  /\ (main.ran.kind = "raises"
        \/ (main.ran.kind = "returns" /\ main.ran.value \in {None, EmptyStr}))
       => /\ main.pc = "exited"
          /\ main.status = 1
          /\ main.shell_calls = 0
          /\ ~CommandPrinted

\* C24 witness: run() returned the empty string and main() exited with 1
\* without a call of get_shell_command
C24_Witness ==
  /\ main.pc = "exited"
  /\ main.ran = [kind |-> "returns", value |-> EmptyStr]
  /\ main.status = 1
  /\ main.shell_calls = 0

\* C25: whatever is given at a prompt (text, nothing, a number in or out of
\* range, a malformed number, an interrupt, the end of the input), the step
\* that handles it leaves the stage with a name or with no selection, and
\* run() does not raise
C25_PromptsNeverRaise ==
  [][ typed # None => (how' # "raised" /\ run_result' # Raised) ]_vars

\* the place of a prompt among the five reads a run can make
PromptOrder(p) ==
  CASE p = "Idle" -> 0
    [] p = "AccountPrompt" -> 1
    [] p = "AccountChoice" -> 2
    [] p = "RolePrompt" -> 3
    [] p = "RoleChoice" -> 4
    [] p = "ProfilePrompt" -> 5
    [] OTHER -> 6

\* C26: every read that is handled takes the run to a later prompt or ends
\* it, so a run makes at most two reads at the account stage, two at the
\* role stage and one at the profile stage and no prompt is shown twice;
\* and a run that ends, ends resolved (a profile name) or cancelled (None)
C26_BoundedReads ==
  [][ typed # None =>
        /\ PromptOrder(pc') > PromptOrder(pc)
        /\ pc' = "Done" => run_result' # Raised ]_vars

\* C27: a profile name run() returns is the profile_name of a record of the
\* catalog whose account name is the result of the account stage and whose
\* role name is the result of the role stage; the result of the account
\* stage is the account name of some record
C27_ReturnedProfileInCatalog ==
  /\ account_name # None =>
       \E i \in 1..Len(profiles) : profiles[i].sso_account_name = account_name
  /\ run_result \notin {None, Raised} =>
       \E i \in 1..Len(profiles) :
         /\ profiles[i].profile_name = run_result
         /\ profiles[i].sso_account_name = account_name
         /\ profiles[i].sso_role_name = role_name

\* C27 witness: in the catalog of sixteen profiles run() returned px, the
\* one profile of account "a" and role "b", the role found by a second text
C27_Witness ==
  /\ pc = "Done"
  /\ Len(profiles) > 4
  /\ run_result = <<"p", "x">>
  /\ account_name = <<"a">>
  /\ role_name = <<"b">>
  /\ how = "second"

\* what the account stage resolves the text to at once, by exact match or
\* by a best score above 70, in a process whose sets iterate in the order h
\* (None when it resolves nothing at once)
AutoAccountUnder(h, name, sc) ==
  LET candidates == SelectSeq(h, LAMBDA x : x \in AccountSet)
      bm == get_best_match(name, candidates, sc)
  IN  IF name \in AccountSet THEN name
      ELSE IF HighConfidence(bm[2]) THEN bm[1]
      ELSE None

\* C28: the account the stage resolves at once (exact match, or best score
\* above 70) is the same for a catalog, a text and its scores in every run:
\* it is what any other set iteration order would have given, also when
\* accounts tie for the best score
C28_AutoResolutionRepeatable ==
  [][ (pc = "AccountPrompt" /\ TextTyped /\ how' \in {"exact", "auto"})
        => \A h \in HashOrders(profiles) :
             AutoAccountUnder(h, strip(typed), wratio) = account_name' ]_vars

\* C29: under any sequence of Up and Down keys (and typed characters) the
\* history cursor stays within -1 .. (number of seeds - 1); Up at the last
\* seed and Down at -1 change neither the cursor nor the buffer; Down at 0
\* sets the cursor to -1 and empties the buffer; Up below the last seed and
\* Down above 0 move the cursor by one; and whenever the cursor moves to an
\* index i >= 0 the buffer holds the account name of seed i
C29_HistoryCursor ==
  [][ /\ current_index \in -1..(Len(valid_recent) - 1)
      /\ current_index' \in -1..(Len(valid_recent) - 1)
      /\ (call'.op = "Up" /\ current_index = Len(valid_recent) - 1)
           => UNCHANGED <<current_index, buffer>>
      /\ (call'.op = "Up" /\ current_index < Len(valid_recent) - 1)
           => current_index' = current_index + 1
      /\ (call'.op = "Down" /\ current_index = -1)
           => UNCHANGED <<current_index, buffer>>
      /\ (call'.op = "Down" /\ current_index = 0)
           => current_index' = -1 /\ buffer' = <<>>
      /\ (call'.op = "Down" /\ current_index > 0)
           => current_index' = current_index - 1
      /\ (current_index' # current_index /\ current_index' >= 0)
           => \E i \in 1..Len(profiles) :
                /\ profiles[i].profile_name = valid_recent[current_index' + 1][1]
                /\ profiles[i].sso_account_name = buffer' ]_vars

\* C29 witness: Up was pressed until the cursor is at the last of five
\* seeds, whose account name is in the buffer
C29_Witness ==
  /\ call.op = "Up"
  /\ Len(valid_recent) = SeedLimit
  /\ current_index = SeedLimit - 1
  /\ buffer = valid_recent[SeedLimit][2]

\* main() runs the selection with stdout redirected: the default mode
\* (neither --exec nor --test), or --quiet with any of them
RedirectedMode ==
  /\ ~main.args.info
  /\ main.args.quiet \/ ~(main.args.exec \/ main.args.test)

\* run() returned a profile name to main()
ProfileSelected ==
  main.ran.kind = "returns" /\ main.ran.value \notin {None, EmptyStr}

\* C30 as claimed: in the default mode and with --quiet the real stdout gets
\* nothing while the selection runs, and in the end exactly the shell
\* command when a profile was selected and nothing otherwise
C30_StdoutIsTheCommand ==
  RedirectedMode =>
    /\ main.pc \in {"called", "running"} => main.stdout = <<>>
    /\ main.pc = "exited" =>
         main.stdout = IF ProfileSelected
                       THEN <<generate_export_command(main.shell, main.ran.value)>>
                       ELSE <<>>

\* C30 amended: in the default mode and with --quiet, sys.stdout is stderr
\* while the selection runs and the real stdout gets none of its lines; it
\* is restored when run() has returned; when the run was cancelled or failed
\* the real stdout got nothing; when a profile was selected it got exactly
\* the shell command in the default mode, exactly the "source <script>" line
\* with --quiet --exec, and the test report with --quiet --test
C30_SelectionOffStdout ==
  RedirectedMode =>
    /\ main.pc = "called" => main.stdout = <<>>
    /\ main.pc = "running" => main.sys_stdout = "stderr" /\ main.stdout = <<>>
    /\ \A i \in 1..Len(main.stdout) : main.stdout[i] # SelectorLine
    /\ (main.pc = "exited" /\ main.ran.kind = "returns") => main.sys_stdout = "stdout"
    /\ (main.pc = "exited" /\ ~ProfileSelected) => main.stdout = <<>>
    /\ (main.pc = "exited" /\ ProfileSelected) =>
         IF main.args.exec THEN main.stdout = <<SourceLine>>
         ELSE IF main.args.test
         THEN /\ main.stdout[1] = TestingLine(main.ran.value)
              /\ SubSeq(main.stdout, 2, Len(main.stdout)) \in TestReports
         ELSE main.stdout = <<generate_export_command(main.shell, main.ran.value)>>

\* C30 witness: with --quiet --exec the selection printed lines, a profile
\* was selected, and the real stdout holds the "source <script>" line only
C30_Witness ==
  /\ main.pc = "exited"
  /\ main.args.quiet
  /\ main.args.exec
  /\ main.printed > 0
  /\ ProfileSelected
  /\ main.stdout = <<SourceLine>>

====
